---- MODULE Spec2Model ----
(***************************************************************************)
(* Bitcoin price forecasting: log-returns and ADF tests (preprocessing.py), *)
(* the pairwise Granger matrix and its summary (granger_causality.py), the  *)
(* ARIMA forecast (arima_model.py), the VAR forecast (var_model.py) and the *)
(* forecasting stages and the export of the pipeline (main.py).             *)
(*                                                                          *)
(* Numbers.  A float is a record [k, n, d]: k = "fin" is the rational n/d   *)
(* (d > 0, lowest terms), k = "nan", "pinf", "ninf" are IEEE's specials.    *)
(* Log-space values are integers counting steps of ln(LogBaseNum /          *)
(* LogBaseDen); p-values are integers counting units of                     *)
(* 10^-(RoundDigits + 1), one digit finer than the rounding the code does.  *)
(* Dates are day ordinals.                                                  *)
(***************************************************************************)
EXTENDS Integers, Sequences, FiniteSets, TLC

VARIABLES
    pc,          \* position of the running driver
    raised,      \* the exception that ended the driver, "none" while it runs
    prices,      \* the price table: a sequence of rows [date, v]
    returns,     \* the log-return table, NoTable before it is computed
    adf_rows,    \* run_adf_tests: the records built so far
    warned,      \* prepare_var_data printed its non-stationarity warning
    cols,        \* granger_matrix: returns.columns.tolist()
    max_lag,     \* granger_matrix: its max_lag argument
    gm_k,        \* granger_matrix: turns of the two nested loops done so far
    matrix,      \* granger_matrix: the boolean matrix, [<<cause, effect>>]
    p_matrix,    \* granger_matrix: the p-value matrix, [<<cause, effect>>]
    diagnostics, \* granger_matrix: the pairs whose failure was printed
    summary,     \* granger_summary: the records returned
    gm_ref,      \* history: the smallest p-value the last test returned
    arima_fitted, \* the fitted ARIMA model the caller holds, None before fit_arima
    arima_fc,    \* the table forecast_arima returned last, NoTable before
    var_fitted,  \* the fitted VAR model the caller holds, VarNone before fit_var
    var_fc,      \* the table forecast_var returned last, NoTable before
    cum_se,      \* history: the cum_se array of the last forecast_var
    fc_steps,    \* the steps argument of the last forecast
    fc_alpha,    \* the alpha argument of the last forecast, in percent
    fc_columns,  \* the columns of the returns given to the last forecast_var
    forecast_summary, \* main: the table written to forecast_summary.csv
    gm_done,     \* granger_matrix, pairs in any order: the pairs processed
    gm_oracle    \* what the Granger test answers on the two columns of a pair

preVars == <<prices, returns, adf_rows, warned>>
gcVars == <<cols, max_lag, gm_k, matrix, p_matrix, diagnostics, summary, gm_ref>>
arVars == <<arima_fitted, arima_fc>>
vaVars == <<var_fitted, var_fc, cum_se>>
fcVars == <<fc_steps, fc_alpha, fc_columns>>
outVars == <<forecast_summary>>
poVars == <<gm_done, gm_oracle>>
vars == <<pc, raised, preVars, gcVars, arVars, vaVars, fcVars, outVars, poVars>>

----------------------------------------------------------------------------
\* Bounds of the model.

\* Largest number of rows of a price table.
MaxRows == 3
\* Largest price of a price table; the smallest is -1, so that zero and
\* negative prices occur.
MaxPrice == 2
\* Largest max_lag given to granger_matrix.
MaxLag == 2
\* Largest forecast horizon asked for.
MaxSteps == 2
\* Largest innovation variance of a fitted model, in squared log units.
MaxVar == 3

\* data_collection.py: START_DATE = "2018-01-01", as a day ordinal.
START_DATE == 736695

\* The columns of the tables: the target and one reference series.
Cols == {"Bitcoin", "Euro"}
\* The columns in the order of df.columns.
ColSeq == <<"Bitcoin", "Euro">>

\* The prices of the target column and of the reference column.
Prices == (0 - 1)..MaxPrice
RefPrices == {1, 2}
PricesOf(c) == IF c = "Bitcoin" THEN Prices ELSE RefPrices

----------------------------------------------------------------------------
\* Floats.

NaN == [k |-> "nan", n |-> 0, d |-> 1]
PInf == [k |-> "pinf", n |-> 0, d |-> 1]
NInf == [k |-> "ninf", n |-> 0, d |-> 1]

RECURSIVE Gcd(_, _)
Gcd(a, b) == IF b = 0 THEN a ELSE Gcd(b, a % b)

Abs(x) == IF x < 0 THEN 0 - x ELSE x

\* The rational n/d in lowest terms, d > 0.
Fin(n, d) ==
    LET g == Gcd(Abs(n), Abs(d))
        s == IF d < 0 THEN 0 - 1 ELSE 1
    IN  [k |-> "fin", n |-> s * (n \div g), d |-> s * (d \div g)]

IsNaN(x) == x.k = "nan"
IsFinite(x) == x.k = "fin"

\* x / y of two floats that are integers or NaN, as numpy divides: a NaN
\* operand gives NaN, 0/0 gives NaN, a nonzero x over 0 gives a signed
\* infinity.
np_divide(x, y) ==
    IF IsNaN(x) \/ IsNaN(y) THEN NaN
    ELSE IF y.n = 0
         THEN IF x.n = 0 THEN NaN ELSE IF x.n > 0 THEN PInf ELSE NInf
         ELSE Fin(x.n * y.d, x.d * y.n)

\* The resolution of log space: one unit is ln(LogBaseNum / LogBaseDen).
LogBaseNum == 5
LogBaseDen == 4

RECURSIVE Pow(_, _)
Pow(b, e) == IF e = 0 THEN 1 ELSE b * Pow(b, e - 1)

\* The largest k >= 0 with (LogBaseNum/LogBaseDen)^k <= n/d, for n/d >= 1.
RECURSIVE LogFloor(_, _, _)
LogFloor(n, d, k) ==
    IF n * Pow(LogBaseDen, k + 1) < d * Pow(LogBaseNum, k + 1)
    THEN k
    ELSE LogFloor(n, d, k + 1)

\* The smallest k >= 0 with (LogBaseNum/LogBaseDen)^k >= n/d, for n/d >= 1.
RECURSIVE LogCeil(_, _, _)
LogCeil(n, d, k) ==
    IF n * Pow(LogBaseDen, k) <= d * Pow(LogBaseNum, k)
    THEN k
    ELSE LogCeil(n, d, k + 1)

\* ln(n/d) in units of ln(LogBaseNum/LogBaseDen), rounded down, n, d > 0.
Ln(n, d) == IF n >= d THEN LogFloor(n, d, 0) ELSE 0 - LogCeil(d, n, 0)

\* np.log of a float: NaN for NaN and for a negative number, -inf for 0.
np_log(x) ==
    CASE x.k = "nan" -> NaN
      [] x.k = "pinf" -> PInf
      [] x.k = "ninf" -> NaN
      [] OTHER -> IF x.n < 0 THEN NaN
                  ELSE IF x.n = 0 THEN NInf
                  ELSE Fin(Ln(x.n, x.d), 1)

----------------------------------------------------------------------------
\* Tables.

\* The value of a table before it is computed.
NoTable == <<>>

Row(date, v) == [date |-> date, v |-> v]

\* Every price table of n rows: consecutive days from START_DATE.
PriceTables(n) ==
    { [i \in 1..n |-> Row(START_DATE + i - 1, [c \in Cols |-> Fin(f[i][c], 1)])] :
        f \in [1..n -> { g \in [Cols -> Prices \cup RefPrices] :
                            \A c \in Cols : g[c] \in PricesOf(c) }] }

\* df.shift(-1) in place of df.shift(1): every value moves one row up.
shift_up(df) ==
    [i \in 1..Len(df) |->
        Row(df[i].date,
            [c \in Cols |-> IF i = Len(df) THEN NaN ELSE df[i + 1].v[c]])]

\* df.shift(1): the index stays, every value moves one row down, the first
\* row is NaN.
shift(df) ==
    [i \in 1..Len(df) |->
        Row(df[i].date, [c \in Cols |-> IF i = 1 THEN NaN ELSE df[i - 1].v[c]])]

\* df / other, both on the same index.
df_divide(df, other) ==
    [i \in 1..Len(df) |->
        Row(df[i].date, [c \in Cols |-> np_divide(df[i].v[c], other[i].v[c])])]

\* np.log(df), elementwise.
df_log(df) ==
    [i \in 1..Len(df) |-> Row(df[i].date, [c \in Cols |-> np_log(df[i].v[c])])]

RowHasNaN(r) == \E c \in Cols : IsNaN(r.v[c])

\* df.dropna(): the rows with no NaN, in order.  An infinity is not NaN.
RECURSIVE dropna(_)
dropna(df) ==
    IF df = <<>> THEN <<>>
    ELSE IF RowHasNaN(df[1]) THEN dropna(Tail(df))
         ELSE <<df[1]>> \o dropna(Tail(df))

\* preprocessing.log_returns
log_returns(df) == dropna(df_log(df_divide(df, shift(df))))

----------------------------------------------------------------------------
\* Stationarity tests.

\* round(x, ndigits=4) of the code, on p-values.
RoundDigits == 4
\* 1.0 in p-value units: one unit is 10^-(RoundDigits + 1).
PUnit == Pow(10, RoundDigits + 1)
\* The alpha of the verdict and of the Granger matrix, 0.05.
significance == (5 * PUnit) \div 100

\* round(p, 4): to the nearest multiple of 10 units (no raw p-value of the
\* model lies half way).
round4(p) == ((p + 5) \div 10) * 10

\* A p-value that is NaN.
PNaN == 0 - 1

\* The p-values the unit-root test returns in the model.
AdfPValues == {0, significance - 4, significance, PUnit}

\* df[col]: the column as a sequence of floats.
Series(df, c) == [i \in 1..Len(df) |-> df[i].v[c]]

\* series.dropna()
series_dropna(x) == SelectSeq(x, LAMBDA e : ~IsNaN(e))

\* A series of zero variance: x.max() == x.min().
IsConstant(x) == Len(x) >= 1 /\ \A i \in 1..Len(x) : x[i] = x[1]

\* statsmodels' adfuller(x, autolag="AIC"), a library call: the outcomes a
\* build can produce.  The code passes the series on unchecked.  On a
\* constant series a statsmodels that checks its input raises ValueError
\* ("Invalid input, x is constant") and one that does not returns NaN
\* statistics; on an empty or too short series it raises ValueError; on
\* any other it returns a p-value.
adfuller(x) ==
    IF x = <<>> THEN {[raise |-> "ValueError", p |-> PNaN]}
    ELSE IF IsConstant(x)
         THEN {[raise |-> "ValueError", p |-> PNaN], [raise |-> "none", p |-> PNaN]}
         ELSE {[raise |-> "ValueError", p |-> PNaN]}
              \cup {[raise |-> "none", p |-> q] : q \in AdfPValues}

\* result[1] < 0.05: every comparison with NaN is false.
LessThan(p, q) == p # PNaN /\ q # PNaN /\ p < q

\* preprocessing.adf_test, given adfuller's result: the record returned.
adf_test(label, result) ==
    [Series |-> label,
     p_value |-> IF result.p = PNaN THEN PNaN ELSE round4(result.p),
     Result |-> IF LessThan(result.p, significance)
                THEN "Stationary" ELSE "Non-Stationary"]

----------------------------------------------------------------------------
\* Granger causality.

\* The column lists granger_matrix is run on.
GrangerColumns == {<<"Bitcoin">>, <<"Bitcoin", "Euro">>, <<"Bitcoin", "Euro", "Gold">>}

\* The F-test p-values statsmodels returns in the model: 0 and three around
\* the threshold.
GrangerPValues == {0, significance - 14, significance - 4, significance + 4}

\* statsmodels' grangercausalitytests(data, maxlag), a library call: it
\* raises (a non-positive maxlag, too few rows after dropna), or returns
\* for each lag 1..maxlag the p-value of the ssr F-test: a number in [0, 1],
\* or NaN at every lag when the data are degenerate (an F statistic of 0/0).
grangercausalitytests(maxlag) ==
    {[raise |-> "ValueError", p |-> <<>>]}
    \cup (IF maxlag >= 1
          THEN {[raise |-> "none", p |-> f] : f \in [1..maxlag -> GrangerPValues]}
               \cup {[raise |-> "none", p |-> [l \in 1..maxlag |-> PNaN]]}
          ELSE {})

\* Python's min over a generator: the first value, replaced by each later
\* value that compares below it; no value compares below or above NaN.
RECURSIVE py_min_from(_, _, _)
py_min_from(m, ps, i) ==
    IF i > Len(ps) THEN m
    ELSE py_min_from(IF LessThan(ps[i], m) THEN ps[i] ELSE m, ps, i + 1)
py_min(ps) == py_min_from(ps[1], ps, 2)

\* The smallest of the p-values of ps that are not NaN, NaN when there is
\* none.
SmallestDefined(ps) ==
    LET D == {ps[i] : i \in 1..Len(ps)} \ {PNaN}
    IN  IF D = {} THEN PNaN ELSE CHOOSE m \in D : \A q \in D : m <= q

\* round(min_p, 4) of a p-value that may be NaN.
round_p(p) == IF p = PNaN THEN PNaN ELSE round4(p)

\* The turn k of "for cause in cols: for effect in cols".
CauseAt(k) == cols[((k - 1) \div Len(cols)) + 1]
EffectAt(k) == cols[((k - 1) % Len(cols)) + 1]

\* A loop body that never skips.
skips_never(cause, effect) == FALSE

\* if cause == effect: continue
skips(cause, effect) == cause = effect

AllPairs(cs) == {<<cs[i], cs[j]>> : i, j \in 1..Len(cs)}

\* The key with ascending=[True, True]: "No" before "Yes".
KeyLessAscending(a, b) ==
    \/ a.Significant = "No" /\ b.Significant = "Yes"
    \/ /\ a.Significant = b.Significant
       /\ \/ LessThan(a.Min_p_value, b.Min_p_value)
          \/ a.Min_p_value # PNaN /\ b.Min_p_value = PNaN

\* The key of sort_values(["Significant", "Min_p_value"],
\* ascending=[False, True]): "Yes" before "No", then the p-value rising, NaN
\* last.
KeyLess(a, b) ==
    \/ a.Significant = "Yes" /\ b.Significant = "No"
    \/ /\ a.Significant = b.Significant
       /\ \/ LessThan(a.Min_p_value, b.Min_p_value)
          \/ a.Min_p_value # PNaN /\ b.Min_p_value = PNaN

\* r put into the sorted sequence s behind every record that is not above it.
RECURSIVE insert_sorted(_, _)
insert_sorted(s, r) ==
    IF s = <<>> THEN <<r>>
    ELSE IF KeyLess(r, s[1]) THEN <<r>> \o s
         ELSE <<s[1]>> \o insert_sorted(Tail(s), r)

\* DataFrame.sort_values on two columns: a stable sort (a lexsort).
RECURSIVE sort_values(_)
sort_values(rows) ==
    IF rows = <<>> THEN <<>>
    ELSE insert_sorted(sort_values(SubSeq(rows, 1, Len(rows) - 1)), rows[Len(rows)])

\* granger_summary: the rows list, one record per pair with cause # effect,
\* cause-major.
RECURSIVE summary_rows(_, _)
summary_rows(pm, k) ==
    IF k > Len(cols) * Len(cols) THEN <<>>
    ELSE (IF CauseAt(k) = EffectAt(k) THEN <<>>
          ELSE <<[Cause |-> CauseAt(k),
                  Effect |-> EffectAt(k),
                  Min_p_value |-> pm[<<CauseAt(k), EffectAt(k)>>],
                  Significant |-> IF LessThan(pm[<<CauseAt(k), EffectAt(k)>>], significance)
                                  THEN "Yes" ELSE "No"]>>)
         \o summary_rows(pm, k + 1)

----------------------------------------------------------------------------
\* Forecasts: what both forecasters use.

\* The display precision of the forecasts, round(2); a price is an integer
\* counting units of 10^-(PriceDigits + 1).
PriceDigits == 2
PriceScale == Pow(10, PriceDigits + 1)

\* np.exp of a log-space value, as a price: PriceScale times
\* (LogBaseNum/LogBaseDen)^k, rounded down at every step.
RECURSIVE np_exp(_)
np_exp(k) ==
    IF k = 0 THEN PriceScale
    ELSE IF k > 0 THEN (np_exp(k - 1) * LogBaseNum) \div LogBaseDen
         ELSE (np_exp(k + 1) * LogBaseDen) \div LogBaseNum

\* np.sqrt of a variance, rounded down.
np_sqrt(v) == CHOOSE r \in 0..v : r * r <= v /\ v < (r + 1) * (r + 1)

\* alpha: float = 0.05, the default of both forecasters, in percent.
DefaultAlpha == 5
\* The alphas asked for, in percent.
Alphas == {DefaultAlpha, 10}
\* One in the units of a normal quantile.
ZScale == Pow(10, 6)
\* scipy's norm.ppf(1 - alpha / 2), which conf_int multiplies the standard
\* error by.
norm_ppf(alpha) == IF alpha = 5 THEN 1959964 ELSE 1644854

\* No model: the handle a caller holds before any fit.
None == [k |-> "None", last_date |-> 0, last_log |-> 0, drift |-> 0, sigma2 |-> 0]

\* The drifts of a fitted model, in log units a day.
Drifts == {0 - 1, 0, 1}

----------------------------------------------------------------------------
\* ARIMA.

\* pm.auto_arima and ARIMA(log_prices, order).fit(), library calls: no
\* candidate order converges (ValueError), or a fitted model.  The model of
\* the fitted result is a random walk with drift on the log-prices, which
\* remembers the dates it was fitted on.
arima_fit(df) ==
    {[raise |-> "ValueError", model |-> None]}
    \cup (IF df = <<>> THEN {}
          ELSE {[raise |-> "none",
                 model |-> [k |-> "ARIMAResults",
                            last_date |-> df[Len(df)].date,
                            last_log |-> np_log(df[Len(df)].v["Bitcoin"]).n,
                            drift |-> dr,
                            sigma2 |-> s2]] : dr \in Drifts, s2 \in 0..MaxVar})

\* forecast_obj.predicted_mean: the h-step forecast of the log-price.
predicted_mean(m, h) == m.last_log + h * m.drift

\* forecast_obj.conf_int(alpha): mean -/+ norm.ppf(1 - alpha/2) * se, the
\* standard error of h steps of a random walk being sqrt(h * sigma2).
conf_int(m, h, alpha) ==
    LET half == (norm_ppf(alpha) * np_sqrt(h * m.sigma2)) \div ZScale
    IN  <<predicted_mean(m, h) - half, predicted_mean(m, h) + half>>

\* A date range that starts on the last observed date itself.
date_range_from_last(last_date, steps) == [h \in 1..steps |-> last_date + h - 1]

\* pd.date_range(start=last_date + pd.Timedelta(days=1), periods=steps,
\* freq="D") of forecast_arima.
arima_future_dates(last_date, steps) == [h \in 1..steps |-> last_date + h]

\* forecast_arima past its first line: the table built from the forecast.
arima_result(m, steps, alpha) ==
    LET future_dates == arima_future_dates(m.last_date, steps)
    IN  [h \in 1..steps |->
            [date |-> future_dates[h],
             Forecast |-> np_exp(predicted_mean(m, h)),
             Lower_CI |-> np_exp(conf_int(m, h, alpha)[1]),
             Upper_CI |-> np_exp(conf_int(m, h, alpha)[2])]]

\* A forecast_arima that answers a missing model with an empty table.
forecast_arima_lenient(fitted_model, steps, alpha) ==
    IF fitted_model = None
    THEN [raise |-> "none", table |-> <<>>]
    ELSE [raise |-> "none", table |-> arima_result(fitted_model, steps, alpha)]

\* arima_model.forecast_arima.  Its first line calls
\* fitted_model.get_forecast: without a fitted model that is an
\* AttributeError, before anything is built.
forecast_arima(fitted_model, steps, alpha) ==
    IF fitted_model = None
    THEN [raise |-> "AttributeError", table |-> NoTable]
    ELSE [raise |-> "none", table |-> arima_result(fitted_model, steps, alpha)]

\* Every table of n rows of positive prices, the reference column at 1.
PositiveTables(n) ==
    { [i \in 1..n |->
         Row(START_DATE + i - 1,
             [c \in Cols |-> IF c = "Bitcoin" THEN Fin(f[i], 1) ELSE Fin(1, 1)])] :
        f \in [1..n -> 1..MaxPrice] }

----------------------------------------------------------------------------
\* VAR.

\* No model: the handle a caller holds before any fit.
VarNone == [k |-> "None", k_ar |-> 0, names |-> <<>>, nu |-> 0, a |-> 0, sigma2 |-> 0]

\* VAR(returns), select_order(maxlags) and fit(selected_lag), library calls:
\* too few rows for the lags (ValueError), or a fitted model of k_ar >= 1
\* lags on the columns of returns.  The model of the fitted result: every
\* series is nu + a * (its value a day before) + noise, nu and the noise
\* variance sigma2 being those of the target, 0 and 1 those of the others.
var_fit(df, columns) ==
    {[raise |-> "ValueError", model |-> VarNone]}
    \cup {[raise |-> "none",
           model |-> [k |-> "VARResults", k_ar |-> lag, names |-> columns,
                      nu |-> dr, a |-> co, sigma2 |-> s2]] :
            lag \in 1..Len(df), dr \in Drifts, co \in {0, 1}, s2 \in 0..MaxVar}

\* returns.values[-lag:], lag >= 1: the last lag rows (all of them when
\* there are fewer), each an array in the order of the columns.
values_tail(df, columns, lag) ==
    LET n == Len(df)
        first == IF lag >= n THEN 1 ELSE n - lag + 1
    IN  [i \in 1..(n - first + 1) |->
            [j \in 1..Len(columns) |-> df[first + i - 1].v[columns[j]].n]]

\* The intercept and the noise variance of the series at place j.
NuAt(m, j) == IF m.names[j] = "Bitcoin" THEN m.nu ELSE 0
Sigma2At(m, j) == IF m.names[j] = "Bitcoin" THEN m.sigma2 ELSE 1

\* fitted_model.forecast(y=y_past, steps=steps): row h of the array, each
\* step fed by the one before, the first by the last row of y_past.
RECURSIVE var_forecast_row(_, _, _)
var_forecast_row(m, y_past, h) ==
    LET prev == IF h = 1 THEN y_past[Len(y_past)] ELSE var_forecast_row(m, y_past, h - 1)
    IN  [j \in 1..Len(m.names) |-> NuAt(m, j) + m.a * prev[j]]

\* fitted_model.forecast_cov(steps)[h - 1][j, j]: the h-step forecast error
\* variance of the series at place j, the sum of a^(2i) sigma2 over i < h.
forecast_cov(m, h, j) == IF m.a = 0 THEN Sigma2At(m, j) ELSE h * Sigma2At(m, j)

\* columns.tolist().index(name)
RECURSIVE list_index(_, _, _)
list_index(columns, name, j) ==
    IF columns[j] = name THEN j ELSE list_index(columns, name, j + 1)

\* np.cumsum
RECURSIVE np_cumsum(_)
np_cumsum(x) ==
    IF x = <<>> THEN <<>>
    ELSE LET head == np_cumsum(SubSeq(x, 1, Len(x) - 1))
         IN  Append(head, (IF head = <<>> THEN 0 ELSE head[Len(head)]) + x[Len(x)])

\* z = 1.959964, in units of 1/ZScale.
z == 1959964

\* An upper bound written where the lower one belongs.
log_lower_plus(log_fc, se) == log_fc + (z * se) \div ZScale

\* log_lower = log_fc - z * cum_se, per step
log_lower(log_fc, se) == log_fc - (z * se) \div ZScale

\* log_upper = log_fc + z * cum_se, per step
log_upper(log_fc, se) == log_fc + (z * se) \div ZScale

\* pd.date_range(start=last_date + pd.Timedelta(days=1), periods=steps,
\* freq="D") of forecast_var.
var_future_dates(last_date, steps) == [h \in 1..steps |-> last_date + h]

\* The column lists of the returns table a caller gives to forecast_var:
\* that of the fit, the same columns in another order, a column fewer and
\* a column more.
ForecastColumns ==
    {ColSeq, <<"Euro", "Bitcoin">>, <<"Bitcoin">>, <<"Bitcoin", "Euro", "Gold">>}

\* The returns table on the columns given: the values of df where it has
\* the column, 0 in a column it has not.
with_columns(df, columns) ==
    [i \in 1..Len(df) |->
        Row(df[i].date,
            [c \in {columns[j] : j \in 1..Len(columns)} |->
                IF c \in DOMAIN df[i].v THEN df[i].v[c] ELSE Fin(0, 1)])]

\* var_model.forecast_var.  Its first line reads fitted_model.k_ar: without
\* a fitted model that is an AttributeError.  The columns of returns are
\* never compared with those of the fit: fitted_model.forecast multiplies
\* the coefficient matrices with the rows of y_past, which numpy refuses
\* (ValueError) when the two widths differ and does by position otherwise.
\* alpha is not read.
forecast_var(fitted_model, df, columns, price_table, steps, alpha) ==
    IF fitted_model = VarNone
    THEN [raise |-> "AttributeError", table |-> NoTable, cum_se |-> <<>>]
    ELSE IF Len(columns) # Len(fitted_model.names)
    THEN [raise |-> "ValueError", table |-> NoTable, cum_se |-> <<>>]
    ELSE
    LET lag == fitted_model.k_ar
        y_past == values_tail(df, columns, lag)
        fc_array == [h \in 1..steps |-> var_forecast_row(fitted_model, y_past, h)]
        btc_idx == list_index(columns, "Bitcoin", 1)
        last_log_price == np_log(price_table[Len(price_table)].v["Bitcoin"]).n
        cum_returns == np_cumsum([h \in 1..steps |-> fc_array[h][btc_idx]])
        step_var == [h \in 1..steps |-> forecast_cov(fitted_model, h, btc_idx)]
        cum_var == np_cumsum(step_var)
        se == [h \in 1..steps |-> np_sqrt(cum_var[h])]
        log_fc == [h \in 1..steps |-> last_log_price + cum_returns[h]]
        last_date == df[Len(df)].date
        future_dates == var_future_dates(last_date, steps)
    IN  [raise |-> "none",
         cum_se |-> se,
         table |-> [h \in 1..steps |->
                      [date |-> future_dates[h],
                       Forecast |-> np_exp(log_fc[h]),
                       Lower_CI |-> np_exp(log_lower(log_fc[h], se[h])),
                       Upper_CI |-> np_exp(log_upper(log_fc[h], se[h]))]]]

----------------------------------------------------------------------------
\* main.py: the export of the two forecasts.

\* No file: results/forecast_summary.csv before main wrote it.
NoFile == [columns |-> <<>>, rows |-> <<>>]

\* The columns of the table a forecaster returns, in the order of the dict
\* it is built from.
ResultColumns == <<"Forecast", "Lower_CI", "Upper_CI">>

\* A missing cell of a frame of prices.
PriceNaN == 0 - 1

\* fc.copy() with columns = [prefix + c for c in fc.columns]: a frame of
\* the columns in their order and of rows [date, v], v in that order too.
labeled(fc, prefix) ==
    [columns |-> [j \in 1..Len(ResultColumns) |-> prefix \o ResultColumns[j]],
     rows |-> [h \in 1..Len(fc) |->
                 [date |-> fc[h].date,
                  v |-> [j \in 1..Len(ResultColumns) |-> fc[h][ResultColumns[j]]]]]]

\* The dates of a set, ascending.
RECURSIVE SortedDates(_)
SortedDates(S) ==
    IF S = {} THEN <<>>
    ELSE LET d == CHOOSE x \in S : \A y \in S : x <= y
         IN  <<d>> \o SortedDates(S \ {d})

\* The cells of frame a at date d, missing ones where a has no such row.
cells_at(a, d) ==
    IF \E h \in 1..Len(a.rows) : a.rows[h].date = d
    THEN a.rows[CHOOSE h \in 1..Len(a.rows) : a.rows[h].date = d].v
    ELSE [j \in 1..Len(a.columns) |-> PriceNaN]

\* A concat along the rows (axis=0): the rows of a and then those of b, each
\* with missing cells in the columns of the other frame.
pd_concat_axis0(a, b) ==
    [columns |-> a.columns \o b.columns,
     rows |-> [h \in 1..Len(a.rows) |->
                 [date |-> a.rows[h].date,
                  v |-> a.rows[h].v \o [j \in 1..Len(b.columns) |-> PriceNaN]]]
              \o [h \in 1..Len(b.rows) |->
                    [date |-> b.rows[h].date,
                     v |-> [j \in 1..Len(a.columns) |-> PriceNaN] \o b.rows[h].v]]]

\* pd.concat([a, b], axis=1): the columns of a and then those of b, one row
\* for every date of either frame, a cell missing where a frame has no row
\* at the date.
pd_concat(a, b) ==
    LET index == SortedDates({a.rows[h].date : h \in 1..Len(a.rows)}
                             \cup {b.rows[h].date : h \in 1..Len(b.rows)})
    IN  [columns |-> a.columns \o b.columns,
         rows |-> [i \in 1..Len(index) |->
                     [date |-> index[i],
                      v |-> cells_at(a, index[i]) \o cells_at(b, index[i])]]]

\* round(x, PriceDigits) of a price, halves to the even digit as numpy
\* rounds; a missing cell stays missing.
round_price(x) ==
    IF x = PriceNaN THEN PriceNaN
    ELSE LET q == x \div 10
             r == x % 10
         IN  10 * (IF r < 5 THEN q
                   ELSE IF r > 5 THEN q + 1
                   ELSE IF q % 2 = 0 THEN q ELSE q + 1)

\* combined.round(2)
frame_round(a) ==
    [columns |-> a.columns,
     rows |-> [i \in 1..Len(a.rows) |->
                 [date |-> a.rows[i].date,
                  v |-> [j \in 1..Len(a.columns) |-> round_price(a.rows[i].v[j])]]]]

----------------------------------------------------------------------------
\* The variables of a module that is not running.
IdlePreprocessing ==
    /\ prices = NoTable
    /\ returns = NoTable
    /\ adf_rows = <<>>
    /\ warned = FALSE

IdleGranger ==
    /\ cols = <<>>
    /\ max_lag = 0
    /\ gm_k = 0
    /\ matrix = <<>>
    /\ p_matrix = <<>>
    /\ diagnostics = <<>>
    /\ summary = <<>>
    /\ gm_ref = PNaN
    /\ gm_done = {}
    /\ gm_oracle = <<>>

IdleArima ==
    /\ arima_fitted = None
    /\ arima_fc = NoTable

IdleVar ==
    /\ var_fitted = VarNone
    /\ var_fc = NoTable
    /\ cum_se = <<>>

IdleForecast ==
    /\ fc_steps = 0
    /\ fc_alpha = 0
    /\ fc_columns = <<>>
    /\ forecast_summary = NoFile

----------------------------------------------------------------------------
\* preprocessing.py, run as a script: prepare_var_data(download_data()).

InitPreprocessing ==
    /\ pc = "start"
    /\ raised = "none"
    /\ \E n \in 0..MaxRows : prices \in PriceTables(n)
    /\ returns = NoTable
    /\ adf_rows = <<>>
    /\ warned = FALSE
    /\ IdleGranger
    /\ IdleArima
    /\ IdleVar
    /\ IdleForecast

\* prepare_var_data, first statement: returns = log_returns(prices)
LogReturns ==
    /\ pc = "start"
    /\ returns' = log_returns(prices)
    /\ pc' = "adf"
    /\ UNCHANGED <<outVars, poVars, raised, prices, adf_rows, warned, gcVars, arVars, vaVars, fcVars>>

\* run_adf_tests: one turn of the list comprehension, adf_test(df[col], col)
\* for the next column.  An exception of adfuller ends prepare_var_data.
AdfTest ==
    /\ pc = "adf"
    /\ Len(adf_rows) < Len(ColSeq)
    /\ LET col == ColSeq[Len(adf_rows) + 1]
       IN  \E result \in adfuller(series_dropna(Series(returns, col))) :
             IF result.raise # "none"
             THEN /\ raised' = result.raise
                  /\ pc' = "raised"
                  /\ UNCHANGED adf_rows
             ELSE /\ adf_rows' = Append(adf_rows, adf_test(col, result))
                  /\ UNCHANGED <<pc, raised>>
    /\ UNCHANGED <<outVars, poVars, prices, returns, warned, gcVars, arVars, vaVars, fcVars>>

\* prepare_var_data, after run_adf_tests: warn when a series is still
\* non-stationary, and return the returns.
PrepareReturn ==
    /\ pc = "adf"
    /\ Len(adf_rows) = Len(ColSeq)
    /\ warned' = (\E i \in 1..Len(adf_rows) : adf_rows[i].Result = "Non-Stationary")
    /\ pc' = "done"
    /\ UNCHANGED <<outVars, poVars, raised, prices, returns, adf_rows, gcVars, arVars, vaVars, fcVars>>

NextPreprocessing == LogReturns \/ AdfTest \/ PrepareReturn

SpecPreprocessing == InitPreprocessing /\ [][NextPreprocessing]_vars

----------------------------------------------------------------------------
\* granger_causality.py, run as a script: granger_summary(returns), which
\* runs granger_matrix and sorts its p-values.

InitGranger ==
    /\ pc = "gm_loop"
    /\ raised = "none"
    /\ IdlePreprocessing
    /\ IdleArima
    /\ IdleVar
    /\ IdleForecast
    /\ cols \in GrangerColumns
    /\ max_lag \in 0..MaxLag
    /\ gm_k = 0
    /\ matrix = [pr \in AllPairs(cols) |-> FALSE]
    /\ p_matrix = [pr \in AllPairs(cols) |-> PNaN]
    /\ diagnostics = <<>>
    /\ summary = <<>>
    /\ gm_ref = PNaN
    /\ gm_done = {}
    /\ gm_oracle = <<>>

\* granger_matrix: one turn of the nested loops.  The diagonal is skipped;
\* for any other pair the test runs inside try/except, which prints the
\* failure and goes on.
GrangerPair ==
    /\ pc = "gm_loop"
    /\ gm_k < Len(cols) * Len(cols)
    /\ gm_k' = gm_k + 1
    /\ LET cause == CauseAt(gm_k + 1)
           effect == EffectAt(gm_k + 1)
       IN  IF skips(cause, effect)
           THEN UNCHANGED <<matrix, p_matrix, diagnostics, gm_ref>>
           ELSE \E result \in grangercausalitytests(max_lag) :
                  IF result.raise # "none"
                  THEN /\ diagnostics' = Append(diagnostics, <<cause, effect>>)
                       /\ gm_ref' = PNaN
                       /\ UNCHANGED <<matrix, p_matrix>>
                  ELSE LET min_p == py_min(result.p)
                       IN  /\ p_matrix' = [p_matrix EXCEPT ![<<cause, effect>>] = round_p(min_p)]
                           /\ matrix' = IF LessThan(min_p, significance)
                                        THEN [matrix EXCEPT ![<<cause, effect>>] = TRUE]
                                        ELSE matrix
                           /\ gm_ref' = SmallestDefined(result.p)
                           /\ UNCHANGED diagnostics
    /\ UNCHANGED <<outVars, poVars, pc, raised, preVars, cols, max_lag, summary, arVars, vaVars, fcVars>>

\* granger_summary, after granger_matrix returned: build the rows, sort them
\* and return them.  With no pair the frame has no column to sort by and
\* sort_values raises KeyError.
GrangerSummary ==
    /\ pc = "gm_loop"
    /\ gm_k = Len(cols) * Len(cols)
    /\ LET rows == summary_rows(p_matrix, 1)
       IN  IF rows = <<>>
           THEN /\ raised' = "KeyError"
                /\ pc' = "raised"
                /\ UNCHANGED summary
           ELSE /\ summary' = sort_values(rows)
                /\ pc' = "done"
                /\ UNCHANGED raised
    /\ UNCHANGED <<outVars, poVars, preVars, cols, max_lag, gm_k, matrix, p_matrix, diagnostics, gm_ref,
                   arVars, vaVars, fcVars>>

NextGranger == GrangerPair \/ GrangerSummary

SpecGranger == InitGranger /\ [][NextGranger]_vars

\* granger_matrix has returned its two matrices.
GmReturned == gm_k >= 1 /\ gm_k = Len(cols) * Len(cols)

OffDiagonal(cs) == {pr \in AllPairs(cs) : pr[1] # pr[2]}

\* C4: in the p-value matrix returned, every diagonal cell is undefined and
\* every defined off-diagonal cell holds a p with 0 <= p <= 1.
C4_PMatrixRange ==
    GmReturned =>
        /\ \A i \in 1..Len(cols) : p_matrix[<<cols[i], cols[i]>>] = PNaN
        /\ \A pr \in OffDiagonal(cols) :
             p_matrix[pr] # PNaN => (0 <= p_matrix[pr] /\ p_matrix[pr] <= PUnit)

\* C4's case: three columns, a defined cell and an undefined one off the
\* diagonal.
C4_Witness ==
    /\ GmReturned
    /\ Len(cols) = 3
    /\ p_matrix[<<"Bitcoin", "Euro">>] = significance
    /\ p_matrix[<<"Gold", "Bitcoin">>] = PNaN

\* C5: a pair whose test cannot be computed gets a diagnostic and an
\* undefined cell (not zero, not false) in both returned matrices, and every
\* other off-diagonal pair is still computed.
C5_FailedPairUndefined ==
    GmReturned =>
        /\ Len(diagnostics) <= Cardinality(OffDiagonal(cols))
        /\ \A i \in 1..Len(diagnostics) :
             /\ p_matrix[diagnostics[i]] = PNaN
             /\ matrix[diagnostics[i]] # FALSE

\* The pair of the last turn of the loops.
LastPair == <<CauseAt(gm_k), EffectAt(gm_k)>>
LastFailed ==
    diagnostics # <<>> /\ diagnostics[Len(diagnostics)] = LastPair

\* C6: the p-value cell of a pair holds the minimum p-value over the lags
\* (to the 4 digits kept), and the boolean cell is True exactly when the
\* p-value cell returned is defined and below the threshold.
C6_BooleanMatchesPValue ==
    /\ (gm_k >= 1 /\ LastPair[1] # LastPair[2] /\ ~LastFailed) =>
            p_matrix[LastPair] = round_p(gm_ref)
    /\ GmReturned =>
            \A pr \in OffDiagonal(cols) :
                matrix[pr] = LessThan(p_matrix[pr], significance)

\* The place of a record in the rows list: cause-major, effect-minor.
RECURSIVE IndexOf(_, _, _)
IndexOf(cs, x, i) == IF cs[i] = x THEN i ELSE IndexOf(cs, x, i + 1)
RowPlace(r) == IndexOf(cols, r.Cause, 1) * Len(cols) + IndexOf(cols, r.Effect, 1)

SameKey(a, b) == a.Significant = b.Significant /\ a.Min_p_value = b.Min_p_value

\* C7: granger_summary returns one record per ordered pair with cause #
\* effect; the significant records come first, each group is in ascending
\* order of p-value (undefined last), and records of equal keys keep the
\* cause-major, effect-minor order.
C7_SummarySorted ==
    pc = "done" =>
        /\ Len(summary) = Cardinality(OffDiagonal(cols))
        /\ {<<summary[i].Cause, summary[i].Effect>> : i \in 1..Len(summary)}
               = OffDiagonal(cols)
        /\ \A i \in 1..Len(summary) :
             /\ summary[i].Min_p_value = p_matrix[<<summary[i].Cause, summary[i].Effect>>]
             /\ summary[i].Significant \in {"Yes", "No"}
        /\ \A i, j \in 1..Len(summary) :
             i < j =>
               /\ ~(summary[i].Significant = "No" /\ summary[j].Significant = "Yes")
               /\ summary[i].Significant = summary[j].Significant =>
                    /\ ~LessThan(summary[j].Min_p_value, summary[i].Min_p_value)
                    /\ ~(summary[i].Min_p_value = PNaN /\ summary[j].Min_p_value # PNaN)
               /\ SameKey(summary[i], summary[j]) =>
                    RowPlace(summary[i]) < RowPlace(summary[j])

\* C7's case: six records, both groups with two different p-values (the
\* second group ending in an undefined one) and two records of equal keys.
C7_Witness ==
    /\ pc = "done"
    /\ Len(summary) = 6
    /\ summary[1].Significant = "Yes" /\ summary[1].Min_p_value = 0
    /\ summary[2].Significant = "Yes" /\ summary[2].Min_p_value > 0
    /\ summary[3].Significant = "No" /\ summary[3].Min_p_value = significance
    /\ SameKey(summary[3], summary[4])
    /\ summary[5].Min_p_value # PNaN
    /\ summary[6].Min_p_value = PNaN

AllPositive(df) == \A i \in 1..Len(df) : \A c \in Cols : df[i].v[c].n > 0

\* v is ln(a/b) in log units, rounded down: the one integer k with
\* (LogBaseNum/LogBaseDen)^k <= a/b < (LogBaseNum/LogBaseDen)^(k+1).
IsLogOfRatio(v, a, b) ==
    /\ IsFinite(v)
    /\ v.d = 1
    /\ IF v.n >= 0
       THEN /\ b * Pow(LogBaseNum, v.n) <= a * Pow(LogBaseDen, v.n)
            /\ a * Pow(LogBaseDen, v.n + 1) < b * Pow(LogBaseNum, v.n + 1)
       ELSE /\ b * Pow(LogBaseDen, 0 - v.n) <= a * Pow(LogBaseNum, 0 - v.n)
            /\ a * Pow(LogBaseNum, 0 - v.n - 1) < b * Pow(LogBaseDen, 0 - v.n - 1)

\* C1: for a price table of at least 2 rows, all positive, log_returns
\* returns one row fewer, on the same columns, indexed by the input's dates
\* from the second on, and the value at date t is ln(P[t] / P[t-1]).
C1_LogReturnsShape ==
    (pc # "start" /\ Len(prices) >= 2 /\ AllPositive(prices)) =>
        /\ Len(returns) = Len(prices) - 1
        /\ \A i \in 1..Len(returns) :
             /\ returns[i].date = prices[i + 1].date
             /\ DOMAIN returns[i].v = Cols
             /\ \A c \in Cols :
                  IsLogOfRatio(returns[i].v[c], prices[i + 1].v[c].n, prices[i].v[c].n)

\* C1's case: three positive rows, the target rising and then falling.
C1_Witness ==
    /\ pc # "start"
    /\ Len(prices) = 3
    /\ AllPositive(prices)
    /\ Len(returns) = 2
    /\ returns[1].v["Bitcoin"].n > 0
    /\ returns[2].v["Bitcoin"].n < 0

HasNonPositive(df) == \E i \in 1..Len(df) : \E c \in Cols : df[i].v[c].n <= 0

\* C2: log_returns fails with InvalidInputError, and returns no table, when
\* a price is not positive or the table has fewer than 2 rows.
C2_InvalidInputRaises ==
    (pc # "start" /\ (HasNonPositive(prices) \/ Len(prices) < 2)) =>
        (raised = "InvalidInputError" /\ returns = NoTable /\ adf_rows = <<>>)

\* Column i of the returns was given to adf_test.
AdfTested(i) ==
    \/ i <= Len(adf_rows)
    \/ pc = "raised" /\ i = Len(adf_rows) + 1

\* C3: on a constant series adf_test reports NonComputableSeries and
\* returns no record with a verdict.
C3_ConstantSeriesNonComputable ==
    \A i \in 1..Len(ColSeq) :
        (pc # "start" /\ AdfTested(i)
            /\ IsConstant(series_dropna(Series(returns, ColSeq[i])))) =>
            (i > Len(adf_rows) /\ raised = "NonComputableSeries")

----------------------------------------------------------------------------
\* arima_model.py: fit_arima and forecast_arima as a caller may call them,
\* the forecast with whatever model handle the caller holds.

InitArima ==
    /\ pc = "unfitted"
    /\ raised = "none"
    /\ \E n \in 1..MaxRows : prices \in PositiveTables(n)
    /\ returns = NoTable
    /\ adf_rows = <<>>
    /\ warned = FALSE
    /\ IdleGranger
    /\ IdleArima
    /\ IdleVar
    /\ IdleForecast

\* fit_arima(prices["Bitcoin"]): the log, the order search and the refit.
FitArima ==
    /\ pc = "unfitted"
    /\ \E fit \in arima_fit(prices) :
         IF fit.raise # "none"
         THEN /\ raised' = fit.raise
              /\ pc' = "fit_failed"
              /\ UNCHANGED arima_fitted
         ELSE /\ arima_fitted' = fit.model
              /\ pc' = "fitted"
              /\ UNCHANGED raised
    /\ UNCHANGED <<outVars, poVars, preVars, gcVars, arima_fc, vaVars, fcVars>>

\* forecast_arima(arima_fitted, last_price, steps, alpha)
ForecastArima ==
    /\ pc \in {"unfitted", "fitted", "forecasted"}
    /\ \E steps \in 1..MaxSteps, alpha \in Alphas :
         LET out == forecast_arima(arima_fitted, steps, alpha)
         IN  /\ fc_steps' = steps
             /\ fc_alpha' = alpha
             /\ IF out.raise # "none"
                THEN /\ raised' = out.raise
                     /\ pc' = "forecast_failed"
                     /\ UNCHANGED arima_fc
                ELSE /\ arima_fc' = out.table
                     /\ pc' = "forecasted"
                     /\ UNCHANGED raised
    /\ UNCHANGED <<outVars, poVars, preVars, gcVars, arima_fitted, vaVars, fc_columns>>

NextArima == FitArima \/ ForecastArima

SpecArima == InitArima /\ [][NextArima]_vars

\* C8: forecast_arima on a fitted model returns `steps` rows, dated the
\* consecutive days after the last date of the fit, each with
\* Lower_CI <= Forecast <= Upper_CI.
C8_ArimaForecastShape ==
    (pc = "forecasted" /\ arima_fitted # None) =>
        /\ Len(arima_fc) = fc_steps
        /\ \A h \in 1..Len(arima_fc) :
             /\ arima_fc[h].date = prices[Len(prices)].date + h
             /\ arima_fc[h].Lower_CI <= arima_fc[h].Forecast
             /\ arima_fc[h].Forecast <= arima_fc[h].Upper_CI

\* C8's case: a forecast of MaxSteps days with a band that is not a point.
C8_Witness ==
    /\ pc = "forecasted"
    /\ arima_fitted # None
    /\ Len(arima_fc) = MaxSteps
    /\ Len(prices) >= 2
    /\ arima_fc[1].Lower_CI < arima_fc[1].Forecast
    /\ arima_fc[1].Forecast < arima_fc[1].Upper_CI

----------------------------------------------------------------------------
\* var_model.py: fit_var and forecast_var on the returns of a price table,
\* as a caller may call them.

InitVar ==
    /\ pc = "unfitted"
    /\ raised = "none"
    /\ \E n \in 2..MaxRows : prices \in PositiveTables(n)
    /\ returns = log_returns(prices)
    /\ adf_rows = <<>>
    /\ warned = FALSE
    /\ IdleGranger
    /\ IdleArima
    /\ IdleVar
    /\ IdleForecast

\* fit_var(returns): the lag selection and the fit.
FitVar ==
    /\ pc = "unfitted"
    /\ \E fit \in var_fit(returns, ColSeq) :
         IF fit.raise # "none"
         THEN /\ raised' = fit.raise
              /\ pc' = "fit_failed"
              /\ UNCHANGED var_fitted
         ELSE /\ var_fitted' = fit.model
              /\ pc' = "fitted"
              /\ UNCHANGED raised
    /\ UNCHANGED <<outVars, poVars, preVars, gcVars, arVars, var_fc, cum_se, fcVars>>

\* forecast_var(var_fitted, returns, prices, steps, alpha)
ForecastVar ==
    /\ pc \in {"unfitted", "fitted", "forecasted"}
    /\ \E steps \in 1..MaxSteps, alpha \in Alphas :
         \E out \in {forecast_var(var_fitted, returns, ColSeq, prices, steps, alpha)} :
             /\ fc_steps' = steps
             /\ fc_alpha' = alpha
             /\ fc_columns' = ColSeq
             /\ IF out.raise # "none"
                THEN /\ raised' = out.raise
                     /\ pc' = "forecast_failed"
                     /\ UNCHANGED <<var_fc, cum_se>>
                ELSE /\ var_fc' = out.table
                     /\ cum_se' = out.cum_se
                     /\ pc' = "forecasted"
                     /\ UNCHANGED raised
    /\ UNCHANGED <<outVars, poVars, preVars, gcVars, arVars, var_fitted>>

NextVar == FitVar \/ ForecastVar

SpecVar == InitVar /\ [][NextVar]_vars

----------------------------------------------------------------------------
\* var_model.py: forecast_var given, after the fit, a returns table on any of
\* the column lists a caller may hand over.  The price table has two rows,
\* the returns one.

InitVarColumns ==
    /\ pc = "unfitted"
    /\ raised = "none"
    /\ prices \in PositiveTables(2)
    /\ returns = log_returns(prices)
    /\ adf_rows = <<>>
    /\ warned = FALSE
    /\ IdleGranger
    /\ IdleArima
    /\ IdleVar
    /\ IdleForecast

\* forecast_var(var_fitted, returns[columns], prices, steps)
ForecastVarColumns ==
    /\ pc \in {"fitted", "forecasted"}
    /\ \E steps \in 1..MaxSteps, columns \in ForecastColumns :
         \E out \in {forecast_var(var_fitted, with_columns(returns, columns), columns,
                                   prices, steps, DefaultAlpha)} :
             /\ fc_steps' = steps
             /\ fc_alpha' = DefaultAlpha
             /\ fc_columns' = columns
             /\ IF out.raise # "none"
                THEN /\ raised' = out.raise
                     /\ pc' = "forecast_failed"
                     /\ UNCHANGED <<var_fc, cum_se>>
                ELSE /\ var_fc' = out.table
                     /\ cum_se' = out.cum_se
                     /\ pc' = "forecasted"
                     /\ UNCHANGED raised
    /\ UNCHANGED <<outVars, poVars, preVars, gcVars, arVars, var_fitted>>

NextVarColumns == FitVar \/ ForecastVarColumns

SpecVarColumns == InitVarColumns /\ [][NextVarColumns]_vars

\* forecast_var was given returns whose columns are not those of the fit.
ColumnsDiffer ==
    /\ pc \in {"forecasted", "forecast_failed"}
    /\ var_fitted # VarNone
    /\ fc_columns # var_fitted.names

\* C11: forecast_var fails with DimensionMismatch, and returns no forecast,
\* whenever the columns of the returns it is given differ from those of the
\* fit: in their order, or by a column more or fewer.  numpy's ValueError
\* for operands of different widths is taken for a DimensionMismatch.
C11_ColumnMismatchRaises ==
    ColumnsDiffer =>
        (pc = "forecast_failed" /\ raised \in {"DimensionMismatch", "ValueError"})
----------------------------------------------------------------------------
\* main.py from its stage 4 on: the stages before have returned, prices and
\* returns are those they left.  The price table has two rows.  Nothing in
\* main catches an exception: one raised in a stage leaves main.

InitMain ==
    /\ pc = "arima"
    /\ raised = "none"
    /\ prices \in PositiveTables(2)
    /\ returns = log_returns(prices)
    /\ adf_rows = <<>>
    /\ warned = FALSE
    /\ IdleGranger
    /\ IdleArima
    /\ IdleVar
    /\ IdleForecast

\* Stage 4: fit_arima(prices["Bitcoin"]) and forecast_arima(arima_fitted,
\* last_price), steps and alpha at their defaults.
MainArima ==
    /\ pc = "arima"
    /\ \E steps \in 1..MaxSteps, fit \in arima_fit(prices) :
         IF fit.raise # "none"
         THEN /\ raised' = fit.raise
              /\ pc' = "raised"
              /\ UNCHANGED <<arima_fitted, arima_fc, fc_steps, fc_alpha>>
         ELSE /\ arima_fitted' = fit.model
              /\ arima_fc' = forecast_arima(fit.model, steps, DefaultAlpha).table
              /\ fc_steps' = steps
              /\ fc_alpha' = DefaultAlpha
              /\ pc' = "var"
              /\ UNCHANGED raised
    /\ UNCHANGED <<preVars, gcVars, vaVars, fc_columns, outVars, poVars>>

\* Stage 5: fit_var(returns) and forecast_var(var_fitted, returns, prices),
\* steps and alpha at the same defaults.
MainVar ==
    /\ pc = "var"
    /\ \E fit \in var_fit(returns, ColSeq) :
         IF fit.raise # "none"
         THEN /\ raised' = fit.raise
              /\ pc' = "raised"
              /\ UNCHANGED <<var_fitted, var_fc, cum_se, fc_columns>>
         ELSE \E out \in {forecast_var(fit.model, returns, ColSeq, prices,
                                         fc_steps, DefaultAlpha)} :
                  /\ var_fitted' = fit.model
                  /\ var_fc' = out.table
                  /\ cum_se' = out.cum_se
                  /\ fc_columns' = ColSeq
                  /\ pc' = "export"
                  /\ UNCHANGED raised
    /\ UNCHANGED <<preVars, gcVars, arVars, fc_steps, fc_alpha, outVars, poVars>>

\* Stage 7: the two tables labelled, put side by side, rounded and written.
MainExport ==
    /\ pc = "export"
    /\ LET arima_fc_labeled == labeled(arima_fc, "ARIMA_")
           var_fc_labeled == labeled(var_fc, "VAR_")
           combined == pd_concat(arima_fc_labeled, var_fc_labeled)
       IN  forecast_summary' = frame_round(combined)
    /\ pc' = "done"
    /\ UNCHANGED <<raised, preVars, gcVars, arVars, vaVars, fcVars, poVars>>

NextMain == MainArima \/ MainVar \/ MainExport

SpecMain == InitMain /\ [][NextMain]_vars

\* An exception left main during the fit of ARIMA, or during that of VAR.
ArimaFitFailed == pc = "raised" /\ arima_fitted = None
VarFitFailed == pc = "raised" /\ arima_fitted # None /\ var_fitted = VarNone

\* C12: when the fit of one forecaster fails in a run of main, the other
\* forecaster still runs to its end and produces its forecast, whichever of
\* the two fails.
C12_FitFailureIsolated ==
    /\ ArimaFitFailed => var_fc # NoTable
    /\ VarFitFailed => arima_fc # NoTable

\* The columns the export is to have, in their order.
ExportColumns ==
    <<"ARIMA_Forecast", "ARIMA_Lower_CI", "ARIMA_Upper_CI",
      "VAR_Forecast", "VAR_Lower_CI", "VAR_Upper_CI">>

----------------------------------------------------------------------------
\* forecast_var and its alpha argument, under SpecVar.

\* forecast_var returned a table with a band: a fitted model and a standard
\* error above 0 at the last step.
VarBandReturned ==
    /\ pc = "forecasted"
    /\ var_fitted # VarNone
    /\ cum_se[fc_steps] > 0

\* The table of the same call with alpha a in place of the alpha given.
SameCallWith(a) ==
    forecast_var(var_fitted, returns, fc_columns, prices, fc_steps, a).table

\* The quantiles of alpha a and of the alpha given are told apart by the
\* half-widths they give at the resolution of log space.
ToldApart(a) ==
    \E h \in 1..fc_steps :
        (norm_ppf(a) * cum_se[h]) \div ZScale
            # (norm_ppf(fc_alpha) * cum_se[h]) \div ZScale

\* C14: the multiplier z of forecast_var is the normal quantile of its alpha
\* argument (1.959964 at alpha = 0.05), so that two calls that differ only
\* in alpha return the same point forecast and different bounds.
C14_IntervalFollowsAlpha ==
    VarBandReturned =>
        /\ z = norm_ppf(fc_alpha)
        /\ \A a \in Alphas \ {fc_alpha} :
             /\ \A h \in 1..fc_steps : SameCallWith(a)[h].Forecast = var_fc[h].Forecast
             /\ ToldApart(a) =>
                  \E h \in 1..fc_steps :
                      \/ SameCallWith(a)[h].Lower_CI # var_fc[h].Lower_CI
                      \/ SameCallWith(a)[h].Upper_CI # var_fc[h].Upper_CI

----------------------------------------------------------------------------
\* granger_matrix with the turns of its two loops taken in any order.  The
\* Granger test is a function of the data it is given, the two columns of
\* the pair: gm_oracle holds its answer for every pair.

\* The answers of the test on the slice of a pair: it cannot be computed, or
\* it gives p-values below or above the threshold.
SliceOutcomes(maxlag) ==
    {[raise |-> "ValueError", p |-> <<>>]}
    \cup {[raise |-> "none", p |-> [l \in 1..maxlag |-> q]] : q \in {0, significance + 4}}

\* A loop body that writes the row of the cause in place of the one cell.
granger_pair_row(st, cause, effect, result) ==
    IF skips(cause, effect) THEN st
    ELSE IF result.raise # "none"
         THEN [st EXCEPT !.diagnostics = Append(@, <<cause, effect>>)]
         ELSE LET min_p == py_min(result.p)
              IN  [st EXCEPT
                     !.p_matrix = [pr \in DOMAIN @ |->
                                      IF pr[1] = cause THEN round_p(min_p) ELSE @[pr]],
                     !.matrix = [pr \in DOMAIN @ |->
                                    IF pr[1] = cause /\ LessThan(min_p, significance)
                                    THEN TRUE ELSE @[pr]]]

\* The body of the loops for one pair, on the matrices and the diagnostics
\* printed so far: the diagonal is skipped, a test that raises is printed, and
\* otherwise the cell of the pair is written in both matrices.
granger_pair(st, cause, effect, result) ==
    IF skips(cause, effect) THEN st
    ELSE IF result.raise # "none"
         THEN [st EXCEPT !.diagnostics = Append(@, <<cause, effect>>)]
         ELSE LET min_p == py_min(result.p)
              IN  [st EXCEPT
                     !.p_matrix[<<cause, effect>>] = round_p(min_p),
                     !.matrix[<<cause, effect>>] =
                         IF LessThan(min_p, significance) THEN TRUE ELSE @]

\* granger_matrix as written: the turns 1..k of "for cause in cols: for
\* effect in cols", in that order, from the matrices as initialised.
RECURSIVE granger_loop(_)
granger_loop(k) ==
    IF k = 0
    THEN [matrix |-> [pr \in AllPairs(cols) |-> FALSE],
          p_matrix |-> [pr \in AllPairs(cols) |-> PNaN],
          diagnostics |-> <<>>]
    ELSE granger_pair(granger_loop(k - 1), CauseAt(k), EffectAt(k),
                      gm_oracle[<<CauseAt(k), EffectAt(k)>>])

InitAnyOrder ==
    /\ pc = "gm_loop"
    /\ raised = "none"
    /\ IdlePreprocessing
    /\ IdleArima
    /\ IdleVar
    /\ IdleForecast
    /\ cols \in GrangerColumns
    /\ max_lag = MaxLag
    /\ gm_k = 0
    /\ matrix = [pr \in AllPairs(cols) |-> FALSE]
    /\ p_matrix = [pr \in AllPairs(cols) |-> PNaN]
    /\ diagnostics = <<>>
    /\ summary = <<>>
    /\ gm_ref = PNaN
    /\ gm_done = {}
    /\ gm_oracle \in [AllPairs(cols) -> SliceOutcomes(max_lag)]
    /\ \A i \in 1..Len(cols) : gm_oracle[<<cols[i], cols[i]>>].raise # "none"

\* The turn of any pair not yet processed.
PairInAnyOrder ==
    /\ pc = "gm_loop"
    /\ \E pr \in AllPairs(cols) \ gm_done :
         \E st \in {granger_pair([matrix |-> matrix, p_matrix |-> p_matrix,
                                   diagnostics |-> diagnostics],
                                  pr[1], pr[2], gm_oracle[pr])} :
             /\ matrix' = st.matrix
             /\ p_matrix' = st.p_matrix
             /\ diagnostics' = st.diagnostics
             /\ gm_done' = gm_done \cup {pr}
             /\ gm_k' = gm_k + 1
    /\ UNCHANGED <<pc, raised, preVars, cols, max_lag, summary, gm_ref, gm_oracle,
                   arVars, vaVars, fcVars, outVars>>

\* return matrix, p_matrix, once every pair had its turn.
AnyOrderReturn ==
    /\ pc = "gm_loop"
    /\ gm_done = AllPairs(cols)
    /\ pc' = "done"
    /\ UNCHANGED <<raised, preVars, gcVars, arVars, vaVars, fcVars, outVars, poVars>>

NextAnyOrder == PairInAnyOrder \/ AnyOrderReturn

SpecAnyOrder == InitAnyOrder /\ [][NextAnyOrder]_vars

\* The turns of the loops of granger_matrix.
Turns == Len(cols) * Len(cols)

\* C15: in granger_matrix the turn of a pair, whose test reads the two
\* columns of the pair only, writes no cell of the boolean and p-value
\* matrices but its own, so that the matrices returned are those of the
\* loops as written, in whatever order the pairs had their turn.
C15_PairsIndependent ==
    /\ [](pc = "done" =>
            /\ matrix = granger_loop(Turns).matrix
            /\ p_matrix = granger_loop(Turns).p_matrix)
    /\ [][\A pr \in AllPairs(cols) :
             pr \notin (gm_done' \ gm_done) =>
                 (matrix'[pr] = matrix[pr] /\ p_matrix'[pr] = p_matrix[pr])]_vars

\* C15's case: three columns, the pairs processed in another order than
\* that of the loops (the diagnostics were printed in another order), a
\* cell found significant and a cell found not.
C15_Witness ==
    /\ pc = "done"
    /\ Len(cols) = 3
    /\ Len(diagnostics) >= 2
    /\ diagnostics # granger_loop(Turns).diagnostics
    /\ \E pr \in AllPairs(cols) : matrix[pr]
    /\ \E pr \in AllPairs(cols) : p_matrix[pr] # PNaN /\ ~matrix[pr]
====
